---- MODULE Spec2Model ----
(***************************************************************************)
(* Envelope encryption (AES-256-GCM) of the Secure-Transaction repository: *)
(* packages/crypto (encryptPayload, decryptPayload, validateRecord) and    *)
(* the callers that hold records (the crypto tests, the API server).       *)
(*                                                                         *)
(* Byte buffers are sequences over 0..255, strings are sequences of        *)
(* one-character strings.  node:crypto's aes-256-gcm is not part of the    *)
(* repository; it is modelled by GcmKeystream/GcmTag: a length-preserving  *)
(* stream cipher and a 16-byte tag over (key, nonce, ciphertext) in which, *)
(* as for GHASH with a non-zero hash key, a change of one ciphertext byte  *)
(* always changes the tag, and in which the keys and nonces the model      *)
(* enumerates never collide (the 2^-128 forgery chance is taken as 0).     *)
(***************************************************************************)
EXTENDS Integers, Sequences, FiniteSets, TLC

(***************************************************************************)
(* Program constants                                                       *)
(***************************************************************************)
\* masterKey.length !== 32, generateRandomBytes(32)
KeyBytes == 32
\* generateRandomBytes(12), validateNonce
NonceBytes == 12
\* cipher.getAuthTag() of aes-256-gcm, validateTag
TagBytes == 16
\* generateId: randomBytes(16)
IdBytes == 16
\* mk_version: 1
MkVersion == 1

AlgTag == "AES-256-GCM"

(***************************************************************************)
(* Bounds of the model                                                     *)
(***************************************************************************)
\* a caller edits characters among the first and the last TamperEnds of a field
TamperEnds == 2
\* the random source yields the byte patterns 1..MaxRand
MaxRand == 2
\* encryptPayload calls in one run of a caller that makes several
MaxEncrypts == 2

(***************************************************************************)
(* State.  rec: the record object a caller holds or passed to its last     *)
(* call; origin: the encrypt call it came from; last: the last call of the *)
(* package with its arguments and outcome.  For a caller that makes        *)
(* several calls: held, the records encrypt returned to it; rng, the state *)
(* of the random generator; encs, its successful encrypt calls; ref, one   *)
(* earlier call kept for comparison.  For the API server: store, the       *)
(* in-memory Map of records; reply, the last reply sent.                   *)
(***************************************************************************)
VARIABLES rec, origin, last, held, rng, encs, ref, store, reply

(***************************************************************************)
(* Bytes, characters, hex                                                  *)
(***************************************************************************)
Fill(n, b) == [i \in 1..n |-> b]

HexLower == <<"0","1","2","3","4","5","6","7","8","9","a","b","c","d","e","f">>
HexUpper == <<"0","1","2","3","4","5","6","7","8","9","A","B","C","D","E","F">>

\* one character of the class [0-9a-f] under the /i flag
IsHexChar(c) == \E i \in 1..16 : HexLower[i] = c \/ HexUpper[i] = c

HexVal(c) == (CHOOSE i \in 1..16 : HexLower[i] = c \/ HexUpper[i] = c) - 1

\* Buffer.toString("hex"): two lowercase digits per byte
toHex(buf) ==
    [i \in 1..(2 * Len(buf)) |->
        IF i % 2 = 1 THEN HexLower[(buf[(i + 1) \div 2] \div 16) + 1]
                     ELSE HexLower[(buf[i \div 2] % 16) + 1]]

\* number of leading complete pairs of hex digits of s
RECURSIVE HexPairs(_, _)
HexPairs(s, n) ==
    IF 2 * n + 2 <= Len(s) /\ IsHexChar(s[2 * n + 1]) /\ IsHexChar(s[2 * n + 2])
    THEN HexPairs(s, n + 1)
    ELSE n

(***************************************************************************)
(* JSON values: null, booleans, integers, strings, arrays, objects (a      *)
(* sequence of <<key, value>> in property order)                           *)
(***************************************************************************)
JNull == [t |-> "null"]
JBool(b) == [t |-> "bool", b |-> b]
JNum(n) == [t |-> "num", n |-> n]
JStr(s) == [t |-> "str", s |-> s]
JArr(a) == [t |-> "arr", a |-> a]
JObj(o) == [t |-> "obj", o |-> o]

Chars(str) ==
    CASE str = "null" -> <<"n","u","l","l">>
      [] str = "true" -> <<"t","r","u","e">>
      [] str = "false" -> <<"f","a","l","s","e">>

Digits == <<"0","1","2","3","4","5","6","7","8","9">>

RECURSIVE NatToChars(_)
NatToChars(n) ==
    IF n < 10 THEN <<Digits[n + 1]>>
    ELSE NatToChars(n \div 10) \o <<Digits[(n % 10) + 1]>>

\* a string in double quotes, with " and \ escaped by a backslash
RECURSIVE QuoteFrom(_, _)
QuoteFrom(s, i) ==
    IF i > Len(s) THEN <<"\"">>
    ELSE (IF s[i] = "\"" \/ s[i] = "\\" THEN <<"\\", s[i]>> ELSE <<s[i]>>)
         \o QuoteFrom(s, i + 1)

Quote(s) == <<"\"">> \o QuoteFrom(s, 1)

\* JSON.stringify(value): no white space, properties in property order
RECURSIVE JSONstringify(_)
RECURSIVE StringifyElems(_, _)
RECURSIVE StringifyMembers(_, _)
StringifyElems(a, i) ==
    IF i > Len(a) THEN <<>>
    ELSE (IF i > 1 THEN <<",">> ELSE <<>>) \o JSONstringify(a[i])
         \o StringifyElems(a, i + 1)

StringifyMembers(o, i) ==
    IF i > Len(o) THEN <<>>
    ELSE (IF i > 1 THEN <<",">> ELSE <<>>) \o Quote(o[i][1]) \o <<":">>
         \o JSONstringify(o[i][2]) \o StringifyMembers(o, i + 1)

JSONstringify(v) ==
    CASE v.t = "null" -> Chars("null")
      [] v.t = "bool" -> (IF v.b THEN Chars("true") ELSE Chars("false"))
      [] v.t = "num" -> (IF v.n < 0 THEN <<"-">> \o NatToChars(0 - v.n)
                                    ELSE NatToChars(v.n))
      [] v.t = "str" -> Quote(v.s)
      [] v.t = "arr" -> <<"[">> \o StringifyElems(v.a, 1) \o <<"]">>
      [] v.t = "obj" -> <<"{">> \o StringifyMembers(v.o, 1) \o <<"}">>

(***************************************************************************)
(* JSON.parse: a recursive-descent parser over the text.  A parse result   *)
(* is [ok, v, i]: success, the value, the index after it.                  *)
(***************************************************************************)
ParseFail == [ok |-> FALSE, v |-> JNull, i |-> 0]
ParseOk(v, i) == [ok |-> TRUE, v |-> v, i |-> i]

RECURSIVE SkipWs(_, _)
SkipWs(s, i) == IF i <= Len(s) /\ s[i] = " " THEN SkipWs(s, i + 1) ELSE i

IsDigit(c) == \E d \in 1..10 : Digits[d] = c
DigitVal(c) == (CHOOSE d \in 1..10 : Digits[d] = c) - 1

\* s[i..] starts with the characters w
StartsWith(s, i, w) ==
    /\ i + Len(w) - 1 <= Len(s)
    /\ \A k \in 1..Len(w) : s[i + k - 1] = w[k]

RECURSIVE ParseDigits(_, _, _)
ParseDigits(s, i, acc) ==
    IF i <= Len(s) /\ IsDigit(s[i])
    THEN ParseDigits(s, i + 1, 10 * acc + DigitVal(s[i]))
    ELSE [n |-> acc, i |-> i]

\* -? (0 | [1-9][0-9]*)
ParseNumber(s, i) ==
    LET neg == i <= Len(s) /\ s[i] = "-"
        j == IF neg THEN i + 1 ELSE i
    IN IF j > Len(s) \/ ~IsDigit(s[j]) THEN ParseFail
       ELSE LET d == IF s[j] = "0" THEN [n |-> 0, i |-> j + 1]
                                   ELSE ParseDigits(s, j, 0)
            IN ParseOk(JNum(IF neg THEN 0 - d.n ELSE d.n), d.i)

\* the characters after an opening quote up to the closing one
RECURSIVE ParseChars(_, _, _)
ParseChars(s, i, acc) ==
    IF i > Len(s) THEN ParseFail
    ELSE IF s[i] = "\"" THEN ParseOk(acc, i + 1)
    ELSE IF s[i] = "\\"
         THEN IF i + 1 <= Len(s) /\ (s[i + 1] = "\"" \/ s[i + 1] = "\\")
              THEN ParseChars(s, i + 2, Append(acc, s[i + 1]))
              ELSE ParseFail
    ELSE ParseChars(s, i + 1, Append(acc, s[i]))

ParseString(s, i) ==
    IF i <= Len(s) /\ s[i] = "\"" THEN ParseChars(s, i + 1, <<>>) ELSE ParseFail

\* an object's members: a later duplicate of a key replaces the earlier value
PutMember(o, k, v) ==
    IF \E m \in 1..Len(o) : o[m][1] = k
    THEN [m \in 1..Len(o) |-> IF o[m][1] = k THEN <<k, v>> ELSE o[m]]
    ELSE Append(o, <<k, v>>)

RECURSIVE ParseValue(_, _)
RECURSIVE ParseElems(_, _, _)
RECURSIVE ParseMembers(_, _, _)
\* after "[" or ",": value, then "," or "]"
ParseElems(s, i, acc) ==
    LET e == ParseValue(s, i)
    IN IF ~e.ok THEN ParseFail
       ELSE LET j == SkipWs(s, e.i)
            IN IF j > Len(s) THEN ParseFail
               ELSE IF s[j] = "," THEN ParseElems(s, j + 1, Append(acc, e.v))
               ELSE IF s[j] = "]" THEN ParseOk(JArr(Append(acc, e.v)), j + 1)
               ELSE ParseFail

\* after "{" or ",": "key" : value, then "," or "}"
ParseMembers(s, i, acc) ==
    LET k == ParseString(s, SkipWs(s, i))
    IN IF ~k.ok THEN ParseFail
       ELSE LET c == SkipWs(s, k.i)
            IN IF c > Len(s) \/ s[c] # ":" THEN ParseFail
               ELSE LET e == ParseValue(s, c + 1)
                    IN IF ~e.ok THEN ParseFail
                       ELSE LET j == SkipWs(s, e.i)
                                o == PutMember(acc, k.v, e.v)
                            IN IF j > Len(s) THEN ParseFail
                               ELSE IF s[j] = "," THEN ParseMembers(s, j + 1, o)
                               ELSE IF s[j] = "}" THEN ParseOk(JObj(o), j + 1)
                               ELSE ParseFail

ParseValue(s, i0) ==
    LET i == SkipWs(s, i0)
    IN IF i > Len(s) THEN ParseFail
       ELSE IF s[i] = "{"
            THEN (LET j == SkipWs(s, i + 1)
                  IN IF j <= Len(s) /\ s[j] = "}" THEN ParseOk(JObj(<<>>), j + 1)
                     ELSE ParseMembers(s, i + 1, <<>>))
       ELSE IF s[i] = "["
            THEN (LET j == SkipWs(s, i + 1)
                  IN IF j <= Len(s) /\ s[j] = "]" THEN ParseOk(JArr(<<>>), j + 1)
                     ELSE ParseElems(s, i + 1, <<>>))
       ELSE IF s[i] = "\"" THEN
            (LET r == ParseString(s, i) IN IF r.ok THEN ParseOk(JStr(r.v), r.i) ELSE ParseFail)
       ELSE IF StartsWith(s, i, Chars("null")) THEN ParseOk(JNull, i + 4)
       ELSE IF StartsWith(s, i, Chars("true")) THEN ParseOk(JBool(TRUE), i + 4)
       ELSE IF StartsWith(s, i, Chars("false")) THEN ParseOk(JBool(FALSE), i + 5)
       ELSE ParseNumber(s, i)

\* JSON.parse(text): [ok, v]; not ok stands for the SyntaxError it throws
JSONparse(text) ==
    LET r == ParseValue(text, 1)
    IN IF r.ok /\ SkipWs(text, r.i) = Len(text) + 1
       THEN [ok |-> TRUE, v |-> r.v]
       ELSE [ok |-> FALSE, v |-> JNull]

(***************************************************************************)
(* UTF-8 of the printable ASCII characters 32..126 (code 96 is written     *)
(* "<grave>")                                                              *)
(***************************************************************************)
Ascii ==
    <<" ","!","\"","#","$","%","&","'","(",")","*","+",",","-",".","/",
      "0","1","2","3","4","5","6","7","8","9",":",";","<","=",">","?",
      "@","A","B","C","D","E","F","G","H","I","J","K","L","M","N","O",
      "P","Q","R","S","T","U","V","W","X","Y","Z","[","\\","]","^","_",
      "<grave>","a","b","c","d","e","f","g","h","i","j","k","l","m","n","o",
      "p","q","r","s","t","u","v","w","x","y","z","{","|","}","~">>

\* Buffer.from(text, "utf-8")
utf8Encode(text) ==
    [i \in 1..Len(text) |-> 31 + (CHOOSE c \in 1..Len(Ascii) : Ascii[c] = text[i])]

\* buf.toString("utf-8"); a byte outside printable ASCII gives a character
\* that no JSON text written by JSONstringify holds
utf8Decode(buf) ==
    [i \in 1..Len(buf) |->
        IF buf[i] >= 32 /\ buf[i] <= 126 THEN Ascii[buf[i] - 31] ELSE "<?>"]

(***************************************************************************)
(* node:crypto as the package uses it                                      *)
(***************************************************************************)
\* randomBytes(size): the k-th draw of a call whose generator is in state
\* seed; distinct (seed, k) give distinct buffers
randomBytes(size, seed, k) == [i \in 1..size |-> (61 * seed + 17 * k + 5 * i) % 256]

GcmKeystream(key, nonce, i) ==
    (key[((i - 1) % Len(key)) + 1] + 7 * nonce[((i - 1) % Len(nonce)) + 1] + 3 * i) % 256

\* cipher.update(plaintext): length-preserving
GcmEncryptBytes(key, nonce, plaintext) ==
    [i \in 1..Len(plaintext) |-> (plaintext[i] + GcmKeystream(key, nonce, i)) % 256]

\* decipher.update(ciphertext)
GcmDecryptBytes(key, nonce, ciphertext) ==
    [i \in 1..Len(ciphertext) |->
        (ciphertext[i] + 256 - GcmKeystream(key, nonce, i)) % 256]

\* sum of buf[i], buf[i + step], ...
RECURSIVE StrideSum(_, _, _)
StrideSum(buf, i, step) ==
    IF i > Len(buf) THEN 0 ELSE buf[i] + StrideSum(buf, i + step, step)

\* cipher.getAuthTag(): 16 bytes over (key, nonce, ciphertext, its length)
GcmTag(key, nonce, ciphertext) ==
    [j \in 1..TagBytes |->
        (StrideSum(key, j, TagBytes) + 2 * StrideSum(key, j + TagBytes, 2 * TagBytes)
         + 5 * StrideSum(nonce, ((j - 1) % Len(nonce)) + 1, Len(nonce))
         + Len(ciphertext) + StrideSum(ciphertext, j, TagBytes)) % 256]

\* setAuthTag accepts tags of these byte lengths
GcmTagLengths == {4, 8, 12, 13, 14, 15, 16}

\* createDecipheriv + setAuthTag + final: does the open succeed?  It throws
\* on a key that is not 32 bytes, an empty nonce, a tag of an invalid
\* length, and a tag that is not the leading bytes of the computed tag.
GcmAuthentic(key, nonce, ciphertext, tag) ==
    /\ Len(key) = KeyBytes
    /\ Len(nonce) > 0
    /\ Len(tag) \in GcmTagLengths
    /\ tag = SubSeq(GcmTag(key, nonce, ciphertext), 1, Len(tag))

(***************************************************************************)
(* The trace of a call: the random draws and AEAD operations it performed  *)
(***************************************************************************)
Event(op, key, nonce, data) == [op |-> op, key |-> key, nonce |-> nonce, data |-> data]
EvRandom(buf) == Event("random", <<>>, <<>>, buf)
EvSeal(key, nonce, plaintext) == Event("seal", key, nonce, plaintext)
EvOpen(key, nonce, ciphertext) == Event("open", key, nonce, ciphertext)

(***************************************************************************)
(* Errors and call results                                                 *)
(***************************************************************************)
Err(name, message, label, expected, actual) ==
    [name |-> name, message |-> message, label |-> label,
     expected |-> expected, actual |-> actual]
NoErr == Err("", "", "", 0, 0)

MsgKeyLength == "Master key must be exactly 32 bytes"
MsgInvalidHex == "invalid hex encoding"
MsgExpectedBytes == "expected bytes"
MsgDekUnwrap == "DEK unwrap failed: wrong master key or corrupted data"
MsgPayloadDecrypt == "Payload decryption failed: data may have been tampered with"
MsgCipher == "Invalid key length"
MsgSyntax == "Unexpected token in JSON"

\* a call that returned value, and a call that threw err, each after ops
Return(value, ops) == [ok |-> TRUE, value |-> value, err |-> NoErr, ops |-> ops]
Throw(err, ops) == [ok |-> FALSE, value |-> <<>>, err |-> err, ops |-> ops]

(***************************************************************************)
(* packages/crypto/src/encrypt.ts                                          *)
(***************************************************************************)
generateId(seed, k) == toHex(randomBytes(IdBytes, seed, k))

generateRandomBytes(size, seed, k) == randomBytes(size, seed, k)

\* with a nonce of 16 bytes
aes256gcmEncrypt_Nonce16(key, plaintext, seed, k) ==
    LET nonce == generateRandomBytes(16, seed, k)
        encrypted == GcmEncryptBytes(key, nonce, plaintext)
    IN [ok |-> Len(key) = KeyBytes, ciphertext |-> encrypted, nonce |-> nonce,
        tag |-> GcmTag(key, nonce, encrypted),
        ops |-> <<EvRandom(nonce), EvSeal(key, nonce, plaintext)>>]

\* the nonce is the first 12 bytes of the key; nothing is drawn
aes256gcmEncrypt_KeyNonce(key, plaintext, seed, k) ==
    LET nonce == [i \in 1..NonceBytes |-> key[((i - 1) % Len(key)) + 1]]
    IN IF Len(key) # KeyBytes
       THEN [ok |-> FALSE, ciphertext |-> <<>>, nonce |-> nonce, tag |-> <<>>,
             ops |-> <<>>]
       ELSE LET encrypted == GcmEncryptBytes(key, nonce, plaintext)
            IN [ok |-> TRUE, ciphertext |-> encrypted, nonce |-> nonce,
                tag |-> GcmTag(key, nonce, encrypted),
                ops |-> <<EvSeal(key, nonce, plaintext)>>]

\* the ciphertext returned is the plaintext: cipher.update is not applied
aes256gcmEncrypt_Plain(key, plaintext, seed, k) ==
    LET nonce == generateRandomBytes(NonceBytes, seed, k)
    IN IF Len(key) # KeyBytes
       THEN [ok |-> FALSE, ciphertext |-> <<>>, nonce |-> nonce, tag |-> <<>>,
             ops |-> <<EvRandom(nonce)>>]
       ELSE [ok |-> TRUE, ciphertext |-> plaintext, nonce |-> nonce,
             tag |-> GcmTag(key, nonce, plaintext),
             ops |-> <<EvRandom(nonce), EvSeal(key, nonce, plaintext)>>]

\* the nonce is the k-th draw of the call; ok is FALSE when createCipheriv
\* throws on the key length
aes256gcmEncrypt(key, plaintext, seed, k) ==
    LET nonce == generateRandomBytes(NonceBytes, seed, k)
    IN IF Len(key) # KeyBytes
       THEN [ok |-> FALSE, ciphertext |-> <<>>, nonce |-> nonce, tag |-> <<>>,
             ops |-> <<EvRandom(nonce)>>]
       ELSE LET encrypted == GcmEncryptBytes(key, nonce, plaintext)
            IN [ok |-> TRUE, ciphertext |-> encrypted, nonce |-> nonce,
                tag |-> GcmTag(key, nonce, encrypted),
                ops |-> <<EvRandom(nonce), EvSeal(key, nonce, plaintext)>>]

\* is the master key 32 bytes long?
EncryptKeyOk(masterKey) == Len(masterKey) = KeyBytes

\* the payload is sealed under the master key; the DEK is wrapped but unused
encryptPayload_MasterSeals(input, masterKey, seed, now) ==
    IF ~EncryptKeyOk(masterKey)
    THEN Throw(Err("Error", MsgKeyLength, "", 0, 0), <<>>)
    ELSE
    LET dek == generateRandomBytes(KeyBytes, seed, 1)
        payloadAsBytes == utf8Encode(JSONstringify(input.payload))
        encryptedPayload == aes256gcmEncrypt(masterKey, payloadAsBytes, seed, 2)
        wrappedDek == aes256gcmEncrypt(masterKey, dek, seed, 3)
        id == generateId(seed, 4)
        record ==
            [id |-> id,
             partyId |-> input.partyId,
             createdAt |-> now,
             payload_nonce |-> toHex(encryptedPayload.nonce),
             payload_ct |-> toHex(encryptedPayload.ciphertext),
             payload_tag |-> toHex(encryptedPayload.tag),
             dek_wrap_nonce |-> toHex(wrappedDek.nonce),
             dek_wrapped |-> toHex(wrappedDek.ciphertext),
             dek_wrap_tag |-> toHex(wrappedDek.tag),
             alg |-> AlgTag,
             mk_version |-> MkVersion]
    IN IF ~encryptedPayload.ok
       THEN Throw(Err("RangeError", MsgCipher, "", 0, 0),
                  <<EvRandom(dek)>> \o encryptedPayload.ops)
       ELSE IF ~wrappedDek.ok
       THEN Throw(Err("RangeError", MsgCipher, "", 0, 0),
                  <<EvRandom(dek)>> \o encryptedPayload.ops \o wrappedDek.ops)
       ELSE Return(record,
                   <<EvRandom(dek)>> \o encryptedPayload.ops \o wrappedDek.ops
                   \o <<EvRandom(randomBytes(IdBytes, seed, 4))>>)

\* encryptPayload(input, masterKey) with the generator in state seed and the
\* clock reading now
encryptPayload(input, masterKey, seed, now) ==
    IF ~EncryptKeyOk(masterKey)
    THEN Throw(Err("Error", MsgKeyLength, "", 0, 0), <<>>)
    ELSE
    LET dek == generateRandomBytes(KeyBytes, seed, 1)
        payloadAsBytes == utf8Encode(JSONstringify(input.payload))
        encryptedPayload == aes256gcmEncrypt(dek, payloadAsBytes, seed, 2)
        wrappedDek == aes256gcmEncrypt(masterKey, dek, seed, 3)
        id == generateId(seed, 4)
        record ==
            [id |-> id,
             partyId |-> input.partyId,
             createdAt |-> now,
             payload_nonce |-> toHex(encryptedPayload.nonce),
             payload_ct |-> toHex(encryptedPayload.ciphertext),
             payload_tag |-> toHex(encryptedPayload.tag),
             dek_wrap_nonce |-> toHex(wrappedDek.nonce),
             dek_wrapped |-> toHex(wrappedDek.ciphertext),
             dek_wrap_tag |-> toHex(wrappedDek.tag),
             alg |-> AlgTag,
             mk_version |-> MkVersion]
    IN IF ~encryptedPayload.ok
       THEN Throw(Err("RangeError", MsgCipher, "", 0, 0),
                  <<EvRandom(dek)>> \o encryptedPayload.ops)
       ELSE IF ~wrappedDek.ok
       THEN Throw(Err("RangeError", MsgCipher, "", 0, 0),
                  <<EvRandom(dek)>> \o encryptedPayload.ops \o wrappedDek.ops)
       ELSE Return(record,
                   <<EvRandom(dek)>> \o encryptedPayload.ops \o wrappedDek.ops
                   \o <<EvRandom(randomBytes(IdBytes, seed, 4))>>)

(***************************************************************************)
(* packages/crypto/src/validate.ts                                         *)
(***************************************************************************)
\* the pattern without the /i flag
isValidHex_LowerOnly(s) ==
    (\A i \in 1..Len(s) : \E d \in 1..16 : HexLower[d] = s[i]) /\ Len(s) % 2 = 0

\* /^[0-9a-f]*$/i.test(s) && s.length % 2 === 0
isValidHex(s) == (\A i \in 1..Len(s) : IsHexChar(s[i])) /\ Len(s) % 2 = 0

Valid == Err("", "", "", 0, 0)

\* without the comparison of actualBytes with byteLen
validateHexLength_NoLength(hex, byteLen, label) ==
    IF ~isValidHex(hex) THEN Err("Error", MsgInvalidHex, label, 0, 0) ELSE Valid

\* the error validateHexLength throws, or Valid
validateHexLength(hex, byteLen, label) ==
    IF ~isValidHex(hex) THEN Err("Error", MsgInvalidHex, label, 0, 0)
    ELSE LET actualBytes == Len(hex) \div 2
         IN IF actualBytes # byteLen
            THEN Err("Error", MsgExpectedBytes, label, byteLen, actualBytes)
            ELSE Valid

validateNonce(hex, label) == validateHexLength(hex, NonceBytes, label)

validateTag(hex, label) == validateHexLength(hex, TagBytes, label)

\* the inline check of payload_ct and dek_wrapped
validateHexOnly(hex, label) ==
    IF ~isValidHex(hex) THEN Err("Error", MsgInvalidHex, label, 0, 0) ELSE Valid

\* the first error of a sequence of check results, or Valid
RECURSIVE FirstError(_, _)
FirstError(checks, i) ==
    IF i > Len(checks) THEN Valid
    ELSE IF checks[i] # Valid THEN checks[i]
    ELSE FirstError(checks, i + 1)

\* the check of dek_wrap_tag carries the label of the check of payload_tag
validateRecord_CopiedLabel(record) ==
    FirstError(<<validateNonce(record.payload_nonce, "payload_nonce"),
                 validateHexOnly(record.payload_ct, "payload_ct"),
                 validateTag(record.payload_tag, "payload_tag"),
                 validateNonce(record.dek_wrap_nonce, "dek_wrap_nonce"),
                 validateHexOnly(record.dek_wrapped, "dek_wrapped"),
                 validateTag(record.dek_wrap_tag, "payload_tag")>>, 1)

\* the verdict of a passing call is kept and returned by the next call
validateRecord_Memo(record) ==
    IF last.op = "validate" /\ last.res.ok THEN Valid
    ELSE
    FirstError(<<validateNonce(record.payload_nonce, "payload_nonce"),
                 validateHexOnly(record.payload_ct, "payload_ct"),
                 validateTag(record.payload_tag, "payload_tag"),
                 validateNonce(record.dek_wrap_nonce, "dek_wrap_nonce"),
                 validateHexOnly(record.dek_wrapped, "dek_wrapped"),
                 validateTag(record.dek_wrap_tag, "dek_wrap_tag")>>, 1)

\* the error validateRecord throws, or Valid
validateRecord(record) ==
    FirstError(<<validateNonce(record.payload_nonce, "payload_nonce"),
                 validateHexOnly(record.payload_ct, "payload_ct"),
                 validateTag(record.payload_tag, "payload_tag"),
                 validateNonce(record.dek_wrap_nonce, "dek_wrap_nonce"),
                 validateHexOnly(record.dek_wrapped, "dek_wrapped"),
                 validateTag(record.dek_wrap_tag, "dek_wrap_tag")>>, 1)

(***************************************************************************)
(* packages/crypto/src/decrypt.ts                                          *)
(***************************************************************************)
\* Buffer.from(hex) without the "hex" encoding: the bytes of the characters
hexToBuffer_Utf8(hex) == utf8Encode(hex)

\* Buffer.from(hex, "hex"): decodes pairs of digits of either case and stops
\* at the first pair that is not hex (an odd last character is dropped)
hexToBuffer(hex) ==
    [i \in 1..HexPairs(hex, 0) |-> 16 * HexVal(hex[2 * i - 1]) + HexVal(hex[2 * i])]

\* without decipher.final(): the tag is set but never verified
aes256gcmDecrypt_NoFinal(key, nonce, ciphertext, tag) ==
    IF Len(key) = KeyBytes /\ Len(nonce) > 0 /\ Len(tag) \in GcmTagLengths
    THEN [ok |-> TRUE, plaintext |-> GcmDecryptBytes(key, nonce, ciphertext)]
    ELSE [ok |-> FALSE, plaintext |-> <<>>]

\* [ok, plaintext]: not ok when createDecipheriv, setAuthTag or final throws
aes256gcmDecrypt(key, nonce, ciphertext, tag) ==
    IF GcmAuthentic(key, nonce, ciphertext, tag)
    THEN [ok |-> TRUE, plaintext |-> GcmDecryptBytes(key, nonce, ciphertext)]
    ELSE [ok |-> FALSE, plaintext |-> <<>>]

\* accepts every key of at most 32 bytes
DecryptKeyOk_AtMost(masterKey) == Len(masterKey) <= KeyBytes

\* masterKey.length !== 32
DecryptKeyOk(masterKey) == Len(masterKey) = KeyBytes

\* a gate that also rejects another alg or mk_version
DecryptGate_Tags(record) ==
    IF record.alg # AlgTag \/ record.mk_version # MkVersion
    THEN Err("Error", MsgInvalidHex, "alg", 0, 0)
    ELSE validateRecord(record)

\* the gate of decryptPayload: the error that stops it before the AEAD, or Valid
DecryptGate(record) == validateRecord(record)

\* the unwrap under the process-wide key instead of the argument
unwrapDek_AmbientKey(record, masterKey) ==
    aes256gcmDecrypt(Fill(KeyBytes, 0),
                     hexToBuffer(record.dek_wrap_nonce),
                     hexToBuffer(record.dek_wrapped),
                     hexToBuffer(record.dek_wrap_tag))

\* a wrap that does not open falls back to the master key as the DEK
unwrapDek_Fallback(record, masterKey) ==
    LET unwrap == aes256gcmDecrypt(masterKey,
                                   hexToBuffer(record.dek_wrap_nonce),
                                   hexToBuffer(record.dek_wrapped),
                                   hexToBuffer(record.dek_wrap_tag))
    IN IF unwrap.ok THEN unwrap ELSE [ok |-> TRUE, plaintext |-> masterKey]

\* Step 2: aes256gcmDecrypt(masterKey, dek_wrap_nonce, dek_wrapped, dek_wrap_tag)
unwrapDek(record, masterKey) ==
    aes256gcmDecrypt(masterKey,
                     hexToBuffer(record.dek_wrap_nonce),
                     hexToBuffer(record.dek_wrapped),
                     hexToBuffer(record.dek_wrap_tag))

\* Step 3: aes256gcmDecrypt(dek, payload_nonce, payload_ct, payload_tag)
openPayload(record, dek) ==
    aes256gcmDecrypt(dek,
                     hexToBuffer(record.payload_nonce),
                     hexToBuffer(record.payload_ct),
                     hexToBuffer(record.payload_tag))

\* one message for both layers
DekUnwrapError_AsPayload == Err("Error", MsgPayloadDecrypt, "", 0, 0)

\* the error thrown by the catch of step 2
DekUnwrapError == Err("Error", MsgDekUnwrap, "", 0, 0)

\* the error thrown by the catch of step 3
PayloadDecryptError == Err("Error", MsgPayloadDecrypt, "", 0, 0)

\* JSON.parse inside the try block of step 3
ParseError_AsPayload == PayloadDecryptError

\* the SyntaxError that JSON.parse throws out of decryptPayload
ParseError == Err("SyntaxError", MsgSyntax, "", 0, 0)

decryptPayload(record, masterKey) ==
    IF ~DecryptKeyOk(masterKey)
    THEN Throw(Err("Error", MsgKeyLength, "", 0, 0), <<>>)
    ELSE IF DecryptGate(record) # Valid
    THEN Throw(DecryptGate(record), <<>>)
    ELSE
    LET unwrap == unwrapDek(record, masterKey)
        opsWrap == <<EvOpen(masterKey, hexToBuffer(record.dek_wrap_nonce),
                            hexToBuffer(record.dek_wrapped))>>
    IN IF ~unwrap.ok
       THEN Throw(DekUnwrapError, opsWrap)
       ELSE
       LET dek == unwrap.plaintext
           opened == openPayload(record, dek)
           opsPayload == opsWrap \o <<EvOpen(dek, hexToBuffer(record.payload_nonce),
                                             hexToBuffer(record.payload_ct))>>
       IN IF ~opened.ok
          THEN Throw(PayloadDecryptError, opsPayload)
          ELSE
          LET parsed == JSONparse(utf8Decode(opened.plaintext))
          IN IF ~parsed.ok
             THEN Throw(ParseError, opsPayload)
             ELSE Return([id |-> record.id,
                          partyId |-> record.partyId,
                          payload |-> parsed.v], opsPayload)

\* the wrapped DEK is deleted from the record once it has been used
decryptPayloadRecord_Consumes(record, masterKey) ==
    IF DecryptKeyOk(masterKey) /\ DecryptGate(record) = Valid
    THEN [record EXCEPT !.dek_wrapped = <<>>]
    ELSE record

\* the record object after decryptPayload(record, masterKey) returned or
\* threw: no statement of decryptPayload or of its callees assigns to it
decryptPayloadRecord(record, masterKey) == record

(***************************************************************************)
(* The callers' inputs                                                     *)
(***************************************************************************)
\* master keys: 32 zero bytes, 32 one bytes, and keys of 16 and 31 bytes
MasterKeys == {Fill(KeyBytes, 0), Fill(KeyBytes, 1), Fill(16, 0), Fill(31, 0)}

PartyIds == {"party_123", "party_456"}

\* {"amount":100,"currency":"AED"}
PayloadSample ==
    JObj(<< <<<<"a","m","o","u","n","t">>, JNum(100)>>,
            <<<<"c","u","r","r","e","n","c","y">>, JStr(<<"A","E","D">>)>> >>)

\* {"k":[true,null,{}],"q":"a\"b","n":-7}
PayloadNested ==
    JObj(<< <<<<"k">>, JArr(<<JBool(TRUE), JNull, JObj(<<>>)>>)>>,
            <<<<"q">>, JStr(<<"a","\"","b">>)>>,
            <<<<"n">>, JNum(0 - 7)>> >>)

ObjectPayloads == {PayloadSample, PayloadNested}

\* [1,"x"], 5 and null
OtherPayloads == {JArr(<<JNum(1), JStr(<<"x">>)>>), JNum(5), JNull}

Payloads == ObjectPayloads \cup OtherPayloads

Seeds == 1..MaxRand

\* new Date().toISOString()
Now == "2026-01-01T00:00:00.000Z"

BinaryFields ==
    {"payload_nonce", "payload_ct", "payload_tag",
     "dek_wrap_nonce", "dek_wrapped", "dek_wrap_tag"}

\* characters a caller writes into a field
TamperChars == {"0", "7", "a", "A", "g"}

\* the positions of a field of length n that a caller edits
TamperPositions(n) == {i \in 1..n : i <= TamperEnds \/ i > n - TamperEnds}

Reshapes == {"drop1", "drop2", "add1", "add2", "clear", "upper"}

\* texts that are not JSON: not json, {"a": and {}x
RawTexts ==
    {<<"n","o","t"," ","j","s","o","n">>,
     <<"{","\"","a","\"",":">>,
     <<"{","}","x">>}

OtherAlgs == {"AES-128-CBC", "CHACHA20-POLY1305"}
OtherVersions == {0, 2}

\* the fields the gate checks for a length
LengthFields == {"payload_nonce", "payload_tag", "dek_wrap_nonce", "dek_wrap_tag"}

\* the edit of the second field of a record edited twice
PairEdits == {"nonhex", "drop2"}

\* ids, party ids and dates a caller writes into a record
OtherIds == {toHex(Fill(IdBytes, 0)), <<"x">>}
OtherPartyIds == {"party_456", "party_789", ""}
OtherDates == {"1999-12-31T23:59:59.000Z", ""}

upper(s) ==
    [i \in 1..Len(s) |-> IF IsHexChar(s[i]) THEN HexUpper[HexVal(s[i]) + 1] ELSE s[i]]

Reshape(s, how) ==
    CASE how = "drop1" -> SubSeq(s, 1, Len(s) - 1)
      [] how = "drop2" -> SubSeq(s, 1, Len(s) - 2)
      [] how = "add1" -> s \o <<"0">>
      [] how = "add2" -> s \o <<"0", "0">>
      [] how = "clear" -> <<>>
      [] how = "upper" -> upper(s)

(***************************************************************************)
(* A caller that encrypts once, edits the record and makes one call on it  *)
(***************************************************************************)
vars == <<rec, origin, last, held, rng, encs, ref, store, reply>>

NoRecord ==
    [id |-> <<>>, partyId |-> "", createdAt |-> "",
     payload_nonce |-> <<>>, payload_ct |-> <<>>, payload_tag |-> <<>>,
     dek_wrap_nonce |-> <<>>, dek_wrapped |-> <<>>, dek_wrap_tag |-> <<>>,
     alg |-> "", mk_version |-> 0]

NoInput == [partyId |-> "", payload |-> JNull]

NoOrigin == [input |-> NoInput, masterKey |-> <<>>, seed |-> 0, record |-> NoRecord]

Call(op, key, input, record, res) ==
    [op |-> op, key |-> key, input |-> input, rec |-> record, res |-> res]

NoCall == Call("none", <<>>, NoInput, NoRecord, Return(<<>>, <<>>))

callVars == <<held, rng, encs, ref>>
srvVars == <<store, reply>>

NoRef == [call |-> NoCall, rng |-> 0]

\* new Map()
EmptyStore == [id \in {} |-> NoRecord]

Reply(route, id, status, err, body) ==
    [route |-> route, id |-> id, status |-> status, err |-> err, body |-> body]

NoReply == Reply("none", <<>>, 0, NoErr, <<>>)

Init ==
    /\ rec = NoRecord
    /\ origin = NoOrigin
    /\ last = NoCall
    /\ held = <<>>
    /\ rng = 0
    /\ encs = <<>>
    /\ ref = NoRef
    /\ store = EmptyStore
    /\ reply = NoReply

\* const record = encryptPayload(input, masterKey), by a caller that holds
\* no record yet
Encrypt(input, masterKey, seed) ==
    LET res == encryptPayload(input, masterKey, seed, Now)
    IN /\ rec = NoRecord
       /\ last = NoCall
       /\ last' = Call("encrypt", masterKey, input, NoRecord, res)
       /\ IF res.ok
          THEN /\ rec' = res.value
               /\ origin' = [input |-> input, masterKey |-> masterKey,
                             seed |-> seed, record |-> res.value]
          ELSE UNCHANGED <<rec, origin>>
       /\ UNCHANGED <<callVars, srvVars>>

\* a record of the TxSecureRecord type that encryptPayload did not make: the
\* two layers are sealed as encryptPayload seals them, over the bytes of text
rawRecord(text, masterKey, seed, now) ==
    LET dek == generateRandomBytes(KeyBytes, seed, 1)
        encryptedPayload == aes256gcmEncrypt(dek, utf8Encode(text), seed, 2)
        wrappedDek == aes256gcmEncrypt(masterKey, dek, seed, 3)
    IN [id |-> generateId(seed, 4),
        partyId |-> "party_123",
        createdAt |-> now,
        payload_nonce |-> toHex(encryptedPayload.nonce),
        payload_ct |-> toHex(encryptedPayload.ciphertext),
        payload_tag |-> toHex(encryptedPayload.tag),
        dek_wrap_nonce |-> toHex(wrappedDek.nonce),
        dek_wrapped |-> toHex(wrappedDek.ciphertext),
        dek_wrap_tag |-> toHex(wrappedDek.tag),
        alg |-> AlgTag,
        mk_version |-> MkVersion]

\* the caller holds a record that another writer made with the master key
Forge(text, masterKey, seed) ==
    /\ rec = NoRecord
    /\ last = NoCall
    /\ Len(masterKey) = KeyBytes
    /\ rec' = rawRecord(text, masterKey, seed, Now)
    /\ origin' = [input |-> NoInput, masterKey |-> masterKey,
                  seed |-> seed, record |-> rawRecord(text, masterKey, seed, Now)]
    /\ UNCHANGED <<last, callVars, srvVars>>

\* the caller holds the record that encrypt just returned
Fresh == last.op = "encrypt" /\ last.res.ok /\ rec = origin.record

\* { ...record, [field]: record[field] with character i replaced by c }
TamperChar(field, c) ==
    /\ Fresh
    /\ \E i \in TamperPositions(Len(rec[field])) :
          /\ rec[field][i] # c
          /\ rec' = [rec EXCEPT ![field][i] = c]
    /\ last' = NoCall
    /\ UNCHANGED <<origin, callVars, srvVars>>

\* { ...record, [field]: a longer, shorter, empty or upper-case field }
TamperShape(field, how) ==
    /\ Fresh
    /\ rec' = [rec EXCEPT ![field] = Reshape(rec[field], how)]
    /\ last' = NoCall
    /\ UNCHANGED <<origin, callVars, srvVars>>

\* { ...record, alg }
TamperAlg(alg) ==
    /\ Fresh
    /\ rec' = [rec EXCEPT !.alg = alg]
    /\ last' = NoCall
    /\ UNCHANGED <<origin, callVars, srvVars>>

\* { ...record, mk_version }
TamperVersion(v) ==
    /\ Fresh
    /\ rec' = [rec EXCEPT !.mk_version = v]
    /\ last' = NoCall
    /\ UNCHANGED <<origin, callVars, srvVars>>

\* { ...record, [f]: two characters shorter, [g]: not hex or shorter }
TamperPair(f, g, how) ==
    /\ Fresh
    /\ f # g
    /\ rec' = [rec EXCEPT ![f] = Reshape(@, "drop2"),
                          ![g] = IF how = "nonhex" THEN [@ EXCEPT ![1] = "g"]
                                 ELSE Reshape(@, "drop2")]
    /\ last' = NoCall
    /\ UNCHANGED <<origin, callVars, srvVars>>

\* { ...record, id }
TamperId(id) ==
    /\ Fresh
    /\ id # rec.id
    /\ rec' = [rec EXCEPT !.id = id]
    /\ last' = NoCall
    /\ UNCHANGED <<origin, callVars, srvVars>>

\* { ...record, partyId }
TamperPartyId(partyId) ==
    /\ Fresh
    /\ partyId # rec.partyId
    /\ rec' = [rec EXCEPT !.partyId = partyId]
    /\ last' = NoCall
    /\ UNCHANGED <<origin, callVars, srvVars>>

\* { ...record, createdAt }
TamperCreatedAt(createdAt) ==
    /\ Fresh
    /\ rec' = [rec EXCEPT !.createdAt = createdAt]
    /\ last' = NoCall
    /\ UNCHANGED <<origin, callVars, srvVars>>

\* the caller holds a record on which it made no call yet
Ready == rec # NoRecord /\ last.op \in {"encrypt", "none"}

\* decryptPayload(record, masterKey)
Decrypt(masterKey) ==
    /\ Ready
    /\ last' = Call("decrypt", masterKey, NoInput, rec, decryptPayload(rec, masterKey))
    /\ rec' = decryptPayloadRecord(rec, masterKey)
    /\ UNCHANGED <<origin, callVars, srvVars>>

\* validateRecord(record)
Validate ==
    /\ Ready
    /\ last' = Call("validate", <<>>, NoInput, rec,
                    IF validateRecord(rec) = Valid THEN Return(<<>>, <<>>)
                    ELSE Throw(validateRecord(rec), <<>>))
    /\ UNCHANGED <<rec, origin, callVars, srvVars>>

Next ==
    \/ \E p \in PartyIds, v \in Payloads, k \in MasterKeys, s \in Seeds :
          Encrypt([partyId |-> p, payload |-> v], k, s)
    \/ \E t \in RawTexts, k \in MasterKeys, s \in Seeds : Forge(t, k, s)
    \/ \E f \in BinaryFields, c \in TamperChars : TamperChar(f, c)
    \/ \E f \in BinaryFields, how \in Reshapes : TamperShape(f, how)
    \/ \E a \in OtherAlgs : TamperAlg(a)
    \/ \E v \in OtherVersions : TamperVersion(v)
    \/ \E f \in LengthFields, g \in BinaryFields, how \in PairEdits : TamperPair(f, g, how)
    \/ \E id \in OtherIds : TamperId(id)
    \/ \E p \in OtherPartyIds : TamperPartyId(p)
    \/ \E t \in OtherDates : TamperCreatedAt(t)
    \/ \E k \in MasterKeys : Decrypt(k)
    \/ Validate

Spec == Init /\ [][Next]_vars

(***************************************************************************)
(* A caller that makes several calls: it encrypts under the keys it has,   *)
(* keeps the records, and calls decryptPayload and validateRecord on the   *)
(* first of them or on edited copies of it, in any order                   *)
(***************************************************************************)
CallKeys == {Fill(KeyBytes, 0), Fill(KeyBytes, 1), Fill(16, 0)}

CallInputs == {[partyId |-> "party_123", payload |-> PayloadNested]}

EncryptPayloads == {PayloadSample, JNum(5)}

Copies == {"same", "payload_tag", "dek_wrap_tag", "payload_nonce"}

\* the first character replaced by another hex digit
FlipFirst(s) == [s EXCEPT ![1] = IF @ = "0" THEN "1" ELSE "0"]

\* record itself, or { ...record, [field]: edited }
Copy(record, how) ==
    CASE how = "same" -> record
      [] how = "payload_tag" -> [record EXCEPT !.payload_tag = FlipFirst(@)]
      [] how = "dek_wrap_tag" -> [record EXCEPT !.dek_wrap_tag = FlipFirst(@)]
      [] how = "payload_nonce" -> [record EXCEPT !.payload_nonce = Reshape(@, "drop2")]

\* a caller that has made no call, with the generator in state seed
StartCalls(seed) ==
    /\ rec = NoRecord
    /\ origin = NoOrigin
    /\ last = NoCall
    /\ held = <<>>
    /\ rng = seed
    /\ encs = <<>>
    /\ ref = NoRef
    /\ store = EmptyStore
    /\ reply = NoReply

\* const record = encryptPayload(input, masterKey): the generator moves on
\* when the call drew from it
CallEncrypt(input, masterKey) ==
    LET res == encryptPayload(input, masterKey, rng, Now)
    IN /\ Len(encs) < MaxEncrypts
       /\ last' = Call("encrypt", masterKey, input, NoRecord, res)
       /\ rec' = NoRecord
       /\ rng' = IF res.ops = <<>> THEN rng ELSE rng + 1
       /\ IF res.ok
          THEN /\ held' = Append(held, res.value)
               /\ encs' = Append(encs, [input |-> input, key |-> masterKey,
                                        ops |-> res.ops, record |-> res.value])
          ELSE UNCHANGED <<held, encs>>
       /\ UNCHANGED <<origin, ref, srvVars>>

\* decryptPayload(record, masterKey) on the i-th record held or on a copy
CallDecrypt(i, how, masterKey) ==
    LET arg == Copy(held[i], how)
    IN /\ i \in 1..Len(held)
       /\ last' = Call("decrypt", masterKey, NoInput, arg, decryptPayload(arg, masterKey))
       /\ rec' = decryptPayloadRecord(arg, masterKey)
       /\ held' = IF how = "same"
                  THEN [held EXCEPT ![i] = decryptPayloadRecord(arg, masterKey)]
                  ELSE held
       /\ UNCHANGED <<origin, rng, encs, ref, srvVars>>

\* validateRecord(record) on the i-th record held or on a copy
CallValidate(i, how) ==
    LET arg == Copy(held[i], how)
    IN /\ i \in 1..Len(held)
       /\ last' = Call("validate", <<>>, NoInput, arg,
                       IF validateRecord(arg) = Valid THEN Return(<<>>, <<>>)
                       ELSE Throw(validateRecord(arg), <<>>))
       /\ rec' = arg
       /\ UNCHANGED <<origin, held, rng, encs, ref, srvVars>>

\* the call just made is kept, to be compared with later calls
Remember ==
    /\ ref.call.op = "none"
    /\ Len(encs) = 1
    /\ last.op \in {"decrypt", "validate"}
    /\ ref' = [call |-> last, rng |-> rng]
    /\ UNCHANGED <<rec, origin, last, held, rng, encs, srvVars>>

InitCalls == StartCalls(1)

NextCalls ==
    \/ \E input \in CallInputs, k \in CallKeys : CallEncrypt(input, k)
    \/ \E how \in Copies, k \in CallKeys : CallDecrypt(1, how, k)
    \/ \E how \in Copies : CallValidate(1, how)
    \/ Remember

SpecCalls == InitCalls /\ [][NextCalls]_vars

(***************************************************************************)
(* A caller that only encrypts, several times                              *)
(***************************************************************************)
InitEncrypts == \E seed \in Seeds : StartCalls(seed)

NextEncrypts ==
    \E p \in PartyIds, v \in EncryptPayloads, k \in CallKeys :
        CallEncrypt([partyId |-> p, payload |-> v], k)

SpecEncrypts == InitEncrypts /\ [][NextEncrypts]_vars

(***************************************************************************)
(* apps/api/src/server.ts: the lookup and decrypt routes over a store that *)
(* holds one record, or none                                               *)
(***************************************************************************)
\* MASTER_KEY, decoded from the environment
ServerKey == Fill(KeyBytes, 0)

MsgNotFound == "Record not found"

\* GET /tx/:id
getTx(st, id) ==
    IF id \notin DOMAIN st
    THEN Reply("get", id, 404, Err("", MsgNotFound, "", 0, 0), <<>>)
    ELSE Reply("get", id, 200, NoErr, st[id])

\* POST /tx/:id/decrypt
postDecrypt(st, id) ==
    IF id \notin DOMAIN st
    THEN Reply("decrypt", id, 404, Err("", MsgNotFound, "", 0, 0), <<>>)
    ELSE LET result == decryptPayload(st[id], ServerKey)
         IN IF result.ok
            THEN Reply("decrypt", id, 200, NoErr, result.value)
            ELSE Reply("decrypt", id, 400, result.err, <<>>)

\* an id that no record has
MissingId == toHex(Fill(IdBytes, 0))

\* records of the TxSecureRecord type: encrypted under the server's key or
\* another, as returned or edited in one field, or sealed over other bytes
StoredRecords ==
    {Copy(encryptPayload([partyId |-> p, payload |-> v], k, seed, Now).value, how) :
        p \in PartyIds, v \in ObjectPayloads,
        k \in {Fill(KeyBytes, 0), Fill(KeyBytes, 1)}, seed \in Seeds, how \in Copies}
    \cup {rawRecord(t, ServerKey, seed, Now) : t \in RawTexts, seed \in Seeds}

InitRoutes ==
    /\ rec = NoRecord
    /\ origin = NoOrigin
    /\ last = NoCall
    /\ held = <<>>
    /\ rng = 0
    /\ encs = <<>>
    /\ ref = NoRef
    /\ \/ store = EmptyStore
       \/ \E r \in StoredRecords : store = [id \in {r.id} |-> r]
    /\ reply = NoReply

GetTx(id) ==
    /\ reply' = getTx(store, id)
    /\ UNCHANGED <<rec, origin, last, callVars, store>>

PostDecrypt(id) ==
    /\ reply' = postDecrypt(store, id)
    /\ store' = [x \in DOMAIN store |->
                    IF x = id THEN decryptPayloadRecord(store[x], ServerKey) ELSE store[x]]
    /\ UNCHANGED <<rec, origin, last, callVars>>

NextRoutes ==
    \/ \E id \in DOMAIN store \cup {MissingId} : GetTx(id)
    \/ \E id \in DOMAIN store \cup {MissingId} : PostDecrypt(id)

SpecRoutes == InitRoutes /\ [][NextRoutes]_vars

(***************************************************************************)
(* apps/api/src/server.ts: the three routes of a running server, whose     *)
(* store is empty at the start and is written by POST /tx/encrypt alone    *)
(***************************************************************************)
\* request.body.partyId with its typeof, and request.body.payload
BodyPartyIds ==
    {[t |-> "string", v |-> "party_123"], [t |-> "string", v |-> "party_456"],
     [t |-> "string", v |-> ""], [t |-> "number", v |-> "7"],
     [t |-> "undefined", v |-> ""]}

Undefined == [t |-> "undefined"]

BodyPayloads == ObjectPayloads \cup OtherPayloads \cup {Undefined, JNum(0)}

\* !partyId || typeof partyId !== "string"
PartyIdRejected(partyId) ==
    \/ partyId.t = "undefined"
    \/ partyId.t = "string" /\ partyId.v = ""
    \/ partyId.t # "string"

\* !payload || typeof payload !== "object" || Array.isArray(payload)
PayloadRejected(payload) ==
    \/ payload.t \in {"undefined", "null"}
    \/ payload.t = "num" /\ payload.n = 0
    \/ payload.t \notin {"obj", "arr", "null"}
    \/ payload.t = "arr"

MsgPartyId == "partyId is required (string)"
MsgPayload == "payload is required (JSON object)"

\* the store holds the latest record only
storeSet_Clear(st, id, record) == [x \in {id} |-> record]

\* store.set(id, record)
storeSet(st, id, record) ==
    [x \in DOMAIN st \cup {id} |-> IF x = id THEN record ELSE st[x]]

InitServer ==
    /\ rec = NoRecord
    /\ origin = NoOrigin
    /\ last = NoCall
    /\ held = <<>>
    /\ rng \in Seeds
    /\ encs = <<>>
    /\ ref = NoRef
    /\ store = EmptyStore
    /\ reply = NoReply

\* POST /tx/encrypt
PostEncrypt(partyId, payload) ==
    /\ Len(encs) < MaxEncrypts
    /\ IF PartyIdRejected(partyId)
       THEN /\ reply' = Reply("encrypt", <<>>, 400, Err("", MsgPartyId, "", 0, 0), <<>>)
            /\ UNCHANGED <<store, rng, encs>>
       ELSE IF PayloadRejected(payload)
       THEN /\ reply' = Reply("encrypt", <<>>, 400, Err("", MsgPayload, "", 0, 0), <<>>)
            /\ UNCHANGED <<store, rng, encs>>
       ELSE LET input == [partyId |-> partyId.v, payload |-> payload]
                res == encryptPayload(input, ServerKey, rng, Now)
            IN /\ rng' = IF res.ops = <<>> THEN rng ELSE rng + 1
               /\ IF res.ok
                  THEN /\ store' = storeSet(store, res.value.id, res.value)
                       /\ reply' = Reply("encrypt", <<>>, 201, NoErr, res.value)
                       /\ encs' = Append(encs, [input |-> input, key |-> ServerKey,
                                                ops |-> res.ops, record |-> res.value])
                  ELSE /\ reply' = Reply("encrypt", <<>>, 500, res.err, <<>>)
                       /\ UNCHANGED <<store, encs>>
    /\ UNCHANGED <<rec, origin, last, held, ref>>

NextServer ==
    \/ \E partyId \in BodyPartyIds, payload \in BodyPayloads : PostEncrypt(partyId, payload)
    \/ \E id \in DOMAIN store \cup {MissingId} : GetTx(id)
    \/ \E id \in DOMAIN store \cup {MissingId} : PostDecrypt(id)

SpecServer == InitServer /\ [][NextServer]_vars

(***************************************************************************)
(* Properties                                                              *)
(***************************************************************************)
\* the last call was decryptPayload on the record exactly as encrypt returned it
DecryptOfOriginal == last.op = "decrypt" /\ origin # NoOrigin /\ last.rec = origin.record

\* C1 (round trip): decryptPayload of the record that encryptPayload returned
\* for a JSON object, under the same master key, succeeds and returns the
\* record's id, the partyId given to encrypt and the payload given to encrypt.
C1_RoundTrip ==
    (DecryptOfOriginal /\ last.key = origin.masterKey
        /\ origin.input.payload.t = "obj")
    => /\ last.res.ok
       /\ last.res.value.id = origin.record.id
       /\ last.res.value.partyId = origin.input.partyId
       /\ last.res.value.payload = origin.input.payload

C1_Witness ==
    /\ DecryptOfOriginal
    /\ last.key = origin.masterKey
    /\ origin.input.payload = PayloadNested
    /\ last.res.ok
    /\ last.res.value.payload = PayloadNested

\* record r is record o with exactly one character of field f replaced by a
\* hex digit of another value
SingleHexFlip(o, r, f) ==
    /\ Len(r[f]) = Len(o[f])
    /\ \E i \in 1..Len(o[f]) :
          /\ r = [o EXCEPT ![f][i] = r[f][i]]
          /\ IsHexChar(r[f][i])
          /\ HexVal(r[f][i]) # HexVal(o[f][i])

AuthenticatedFields == {"payload_ct", "payload_tag", "dek_wrapped", "dek_wrap_tag"}

\* C2 (tamper detection): after one hex character of payload_ct, payload_tag,
\* dek_wrapped or dek_wrap_tag of an encrypted record is replaced by a digit
\* of another value, decryptPayload under the encrypting key fails.
C2_TamperDetected ==
    \A f \in AuthenticatedFields :
        (last.op = "decrypt" /\ origin # NoOrigin /\ last.key = origin.masterKey
            /\ SingleHexFlip(origin.record, last.rec, f))
        => ~last.res.ok

C2_Witness ==
    /\ last.op = "decrypt"
    /\ origin # NoOrigin
    /\ last.key = origin.masterKey
    /\ SingleHexFlip(origin.record, last.rec, "payload_tag")
    /\ ~last.res.ok
    /\ last.res.err.message = MsgPayloadDecrypt

\* C3 (wrong key): decryptPayload of an encrypted record under another
\* 32-byte master key fails.
C3_WrongKeyRejected ==
    (DecryptOfOriginal /\ Len(last.key) = KeyBytes /\ last.key # origin.masterKey)
    => ~last.res.ok

C3_Witness ==
    /\ DecryptOfOriginal
    /\ Len(last.key) = KeyBytes
    /\ last.key # origin.masterKey
    /\ ~last.res.ok
    /\ last.res.err.message = MsgDekUnwrap

\* C4 (key length): encryptPayload and decryptPayload with a master key that
\* is not 32 bytes long throw the key-length error, having drawn no random
\* bytes and made no AEAD call, and the caller gets no record.
C4_KeyLengthFirst ==
    (last.op \in {"encrypt", "decrypt"} /\ Len(last.key) # KeyBytes)
    => /\ ~last.res.ok
       /\ last.res.err.message = MsgKeyLength
       /\ last.res.ops = <<>>
       /\ (last.op = "encrypt" => rec = NoRecord)

C4_Witness ==
    /\ last.op = "decrypt"
    /\ Len(last.key) = 31
    /\ validateRecord(last.rec) # Valid
    /\ last.res.err.message = MsgKeyLength
    /\ last.res.ops = <<>>

\* a nonce that does not decode to 12 bytes or a tag that does not decode to 16
WrongLengths(r) ==
    \/ Len(hexToBuffer(r.payload_nonce)) # NonceBytes
    \/ Len(hexToBuffer(r.dek_wrap_nonce)) # NonceBytes
    \/ Len(hexToBuffer(r.payload_tag)) # TagBytes
    \/ Len(hexToBuffer(r.dek_wrap_tag)) # TagBytes

GateMessages == {MsgInvalidHex, MsgExpectedBytes}

\* C5 (length enforcement): decryptPayload under a 32-byte key of a record
\* with a nonce that is not 12 bytes or a tag that is not 16 bytes throws a
\* validation error and makes no AEAD open.
C5_LengthsBeforeAead ==
    (last.op = "decrypt" /\ Len(last.key) = KeyBytes /\ WrongLengths(last.rec))
    => /\ ~last.res.ok
       /\ last.res.err.message \in GateMessages
       /\ last.res.err.label \in BinaryFields
       /\ last.res.ops = <<>>

C5_Witness ==
    /\ last.op = "decrypt"
    /\ Len(last.key) = KeyBytes
    /\ Len(last.rec.payload_nonce) = 26
    /\ isValidHex(last.rec.payload_nonce)
    /\ last.res.err = Err("Error", MsgExpectedBytes, "payload_nonce", 12, 13)
    /\ last.res.ops = <<>>

HexCharSet ==
    {"0","1","2","3","4","5","6","7","8","9",
     "a","b","c","d","e","f","A","B","C","D","E","F"}

EvenHex(s) == Len(s) % 2 = 0 /\ \A i \in 1..Len(s) : s[i] \in HexCharSet

GateAccepts(r) ==
    /\ \A f \in BinaryFields : EvenHex(r[f])
    /\ Len(r.payload_nonce) = 24
    /\ Len(r.dek_wrap_nonce) = 24
    /\ Len(r.payload_tag) = 32
    /\ Len(r.dek_wrap_tag) = 32

\* C6 (acceptance set): validateRecord accepts a record exactly when its six
\* binary fields are even-length strings over [0-9a-fA-F], both nonces have 24
\* characters and both tags 32; payload_ct and dek_wrapped may have any even
\* length, zero included.
C6_GateAcceptanceSet ==
    last.op = "validate" => (last.res.ok <=> GateAccepts(last.rec))

C6_Witness ==
    /\ last.op = "validate"
    /\ last.rec.payload_ct = <<>>
    /\ last.res.ok

LowerHex(s) == \A i \in 1..Len(s) : \E d \in 1..16 : HexLower[d] = s[i]

\* C7 (encrypt output): a record returned by encryptPayload has the fixed alg
\* and mk_version, the input partyId, 12-byte nonces, 16-byte tags, a 32-byte
\* dek_wrapped, a payload_ct as long as the serialized payload, lowercase hex
\* in all six binary fields, and passes validateRecord.
C7_EncryptOutput ==
    (last.op = "encrypt" /\ last.res.ok)
    => LET r == last.res.value
       IN /\ r.alg = "AES-256-GCM"
          /\ r.mk_version = 1
          /\ r.partyId = last.input.partyId
          /\ Len(r.payload_nonce) = 2 * 12
          /\ Len(r.dek_wrap_nonce) = 2 * 12
          /\ Len(r.payload_tag) = 2 * 16
          /\ Len(r.dek_wrap_tag) = 2 * 16
          /\ Len(r.dek_wrapped) = 2 * 32
          /\ Len(r.payload_ct) = 2 * Len(utf8Encode(JSONstringify(last.input.payload)))
          /\ \A f \in BinaryFields : LowerHex(r[f])
          /\ validateRecord(r) = Valid

C7_Witness ==
    /\ last.op = "encrypt"
    /\ last.res.ok
    /\ last.input.payload = PayloadSample
    /\ Len(last.res.value.payload_ct) = 62
    /\ rec = last.res.value

\* C8 (encrypt input validation), as claimed: encryptPayload under a 32-byte
\* key of a payload that is not a JSON object fails and returns no record.
C8_NonObjectRejected ==
    (last.op = "encrypt" /\ Len(last.key) = KeyBytes /\ last.input.payload.t # "obj")
    => ~last.res.ok

\* C9 (version tags), as claimed: decryptPayload of a record whose alg is not
\* "AES-256-GCM" or whose mk_version is not 1 fails.
C9_VersionTagsEnforced ==
    (last.op = "decrypt" /\ (last.rec.alg # "AES-256-GCM" \/ last.rec.mk_version # 1))
    => ~last.res.ok

\* the wrap layer of r authenticates under master key k
WrapAuthentic(r, k) ==
    GcmAuthentic(k, hexToBuffer(r.dek_wrap_nonce), hexToBuffer(r.dek_wrapped),
                 hexToBuffer(r.dek_wrap_tag))

\* the payload layer of r authenticates under the DEK unwrapped with k
PayloadAuthentic(r, k) ==
    GcmAuthentic(GcmDecryptBytes(k, hexToBuffer(r.dek_wrap_nonce),
                                 hexToBuffer(r.dek_wrapped)),
                 hexToBuffer(r.payload_nonce), hexToBuffer(r.payload_ct),
                 hexToBuffer(r.payload_tag))

\* C10 (failure layering): for a record that passes the gate and a 32-byte
\* key, a wrap layer that does not authenticate gives the DEK-unwrap error
\* after one open, under the master key, and no open of the payload layer; a
\* wrap layer that opens with a payload layer that does not gives the
\* payload-decrypt error; the payload-decrypt error is never given when the
\* wrap layer did not authenticate.
C10_FailureLayering ==
    (last.op = "decrypt" /\ Len(last.key) = KeyBytes /\ GateAccepts(last.rec))
    => /\ ~WrapAuthentic(last.rec, last.key)
            => /\ ~last.res.ok
               /\ last.res.err.message = MsgDekUnwrap
               /\ Len(last.res.ops) = 1
               /\ last.res.ops[1].op = "open"
               /\ last.res.ops[1].key = last.key
       /\ (WrapAuthentic(last.rec, last.key) /\ ~PayloadAuthentic(last.rec, last.key))
            => /\ ~last.res.ok
               /\ last.res.err.message = MsgPayloadDecrypt
       /\ (~last.res.ok /\ last.res.err.message = MsgPayloadDecrypt)
            => WrapAuthentic(last.rec, last.key)

C10_Witness ==
    /\ last.op = "decrypt"
    /\ Len(last.key) = KeyBytes
    /\ GateAccepts(last.rec)
    /\ WrapAuthentic(last.rec, last.key)
    /\ ~PayloadAuthentic(last.rec, last.key)
    /\ last.res.err.message = MsgPayloadDecrypt
    /\ Len(last.res.ops) = 2

NonceFields == {"payload_nonce", "dek_wrap_nonce"}
TagFields == {"payload_tag", "dek_wrap_tag"}

\* field f of record r breaks the hex rule or the length rule of the gate
FieldViolates(r, f) ==
    \/ ~EvenHex(r[f])
    \/ f \in NonceFields /\ Len(r[f]) # 24
    \/ f \in TagFields /\ Len(r[f]) # 32

\* C11 (malformed-record reporting): when validateRecord, called directly or
\* as the gate of decryptPayload under a 32-byte key, rejects a record, the
\* error is a validation error (invalid hex or wrong byte count) whose label
\* is one of the six binary fields, and that field itself is not even-length
\* hex or is a nonce or tag of the wrong length; the count of bytes reported
\* for a length error is that field's.
C11_MalformedNamesOffender ==
    (/\ last.op \in {"validate", "decrypt"}
     /\ last.op = "decrypt" => Len(last.key) = KeyBytes
     /\ ~GateAccepts(last.rec))
    => /\ ~last.res.ok
       /\ last.res.err.name = "Error"
       /\ last.res.err.message \in GateMessages
       /\ last.res.err.label \in BinaryFields
       /\ FieldViolates(last.rec, last.res.err.label)
       /\ last.res.err.message = MsgExpectedBytes
            => /\ last.res.err.label \in NonceFields \cup TagFields
               /\ last.res.err.actual = Len(last.rec[last.res.err.label]) \div 2
               /\ last.res.err.actual # last.res.err.expected

C11_Witness ==
    /\ last.op = "decrypt"
    /\ Len(last.key) = KeyBytes
    /\ Len(last.rec.dek_wrap_tag) = 30
    /\ \A f \in BinaryFields \ {"dek_wrap_tag"} : ~FieldViolates(last.rec, f)
    /\ last.res.err = Err("Error", MsgExpectedBytes, "dek_wrap_tag", 16, 15)

\* t is a run of consecutive elements of s
Contains(s, t) == \E i \in 0..(Len(s) - Len(t)) : SubSeq(s, i + 1, i + Len(t)) = t

IdAndBinaryFields == BinaryFields \cup {"id"}

\* neither the bytes of dek nor their hex text occur in a field of record r
DekAbsent(r, dek) ==
    \A f \in IdAndBinaryFields :
        /\ ~Contains(hexToBuffer(r[f]), dek)
        /\ ~Contains(r[f], toHex(dek))
        /\ ~Contains(r[f], upper(toHex(dek)))

ResultFields == {"id", "partyId", "payload"}

\* C14 (DEK confidentiality of outputs): the 32-byte DEK that encryptPayload
\* drew occurs, as bytes or as hex text, in no field of the record it returns,
\* which is all the caller is left with; the value decryptPayload returns has
\* exactly the fields id, partyId and payload, taken from the record and the
\* parsed plaintext, and the DEK it unwrapped occurs in no field of the record
\* the caller is left with; a failing call returns no value.
C14_DekNotInOutputs ==
    /\ (last.op = "encrypt" /\ last.res.ok)
       => /\ last.res.ops[1].op = "random"
          /\ Len(last.res.ops[1].data) = KeyBytes
          /\ DekAbsent(last.res.value, last.res.ops[1].data)
          /\ rec = last.res.value
    /\ (last.op = "decrypt" /\ last.res.ok)
       => /\ DOMAIN last.res.value = ResultFields
          /\ last.res.value.id = last.rec.id
          /\ last.res.value.partyId = last.rec.partyId
          /\ Len(last.res.ops) = 2
          /\ DekAbsent(rec, last.res.ops[2].key)
    /\ (last.op \in {"encrypt", "decrypt"} /\ ~last.res.ok)
       => Len(last.res.value) = 0

C14_Witness ==
    /\ DecryptOfOriginal
    /\ last.res.ok
    /\ origin.input.payload = PayloadSample
    /\ last.res.ops[2].key = randomBytes(KeyBytes, origin.seed, 1)
    /\ DekAbsent(rec, last.res.ops[2].key)
    /\ DOMAIN last.res.value = ResultFields

\* the bytes the payload layer of r holds under the DEK unwrapped with k
RecoveredBytes(r, k) ==
    GcmDecryptBytes(GcmDecryptBytes(k, hexToBuffer(r.dek_wrap_nonce),
                                    hexToBuffer(r.dek_wrapped)),
                    hexToBuffer(r.payload_nonce), hexToBuffer(r.payload_ct))

OtherFailures ==
    {MsgKeyLength, MsgInvalidHex, MsgExpectedBytes, MsgDekUnwrap, MsgPayloadDecrypt}

\* C17 (internal inconsistency): when a record passes the gate, both layers
\* authenticate under the 32-byte key, and the recovered bytes are not JSON,
\* decryptPayload returns nothing and throws the SyntaxError of JSON.parse,
\* whose name and message are those of none of the key-length, validation,
\* DEK-unwrap and payload-decrypt errors; both opens were made.
C17_InternalInconsistency ==
    (/\ last.op = "decrypt"
     /\ Len(last.key) = KeyBytes
     /\ GateAccepts(last.rec)
     /\ WrapAuthentic(last.rec, last.key)
     /\ PayloadAuthentic(last.rec, last.key)
     /\ ~JSONparse(utf8Decode(RecoveredBytes(last.rec, last.key))).ok)
    => /\ ~last.res.ok
       /\ Len(last.res.value) = 0
       /\ last.res.err.name = "SyntaxError"
       /\ last.res.err.message \notin OtherFailures
       /\ Len(last.res.ops) = 2

C17_Witness ==
    /\ last.op = "decrypt"
    /\ last.rec = rawRecord(<<"{","}","x">>, last.key, 1, Now)
    /\ WrapAuthentic(last.rec, last.key)
    /\ PayloadAuthentic(last.rec, last.key)
    /\ utf8Decode(RecoveredBytes(last.rec, last.key)) = <<"{","}","x">>
    /\ ~last.res.ok
    /\ last.res.err.name = "SyntaxError"

PayloadLayerFields == {"payload_nonce", "payload_ct", "payload_tag"}

\* record r is record o except, possibly, in the three payload-layer fields
SameButPayloadLayer(o, r) ==
    \A f \in DOMAIN o : f \notin PayloadLayerFields => r[f] = o[f]

\* C18 (no tampering oracle without the master key): for a record that passes
\* the gate and differs from an encrypted record at most in payload_nonce,
\* payload_ct and payload_tag, decryptPayload under a 32-byte key other than
\* the encrypting one throws the DEK-unwrap error after the one open of the
\* wrap layer: the same error and the same open as for the unedited record.
C18_NoOracleWithoutKey ==
    (/\ last.op = "decrypt"
     /\ origin # NoOrigin
     /\ Len(last.key) = KeyBytes
     /\ last.key # origin.masterKey
     /\ GateAccepts(last.rec)
     /\ SameButPayloadLayer(origin.record, last.rec))
    => /\ ~last.res.ok
       /\ last.res.err = Err("Error", MsgDekUnwrap, "", 0, 0)
       /\ last.res.err = decryptPayload(origin.record, last.key).err
       /\ last.res.ops = decryptPayload(origin.record, last.key).ops
       /\ Len(last.res.ops) = 1

C18_Witness ==
    /\ last.op = "decrypt"
    /\ origin # NoOrigin
    /\ Len(last.key) = KeyBytes
    /\ last.key # origin.masterKey
    /\ GateAccepts(last.rec)
    /\ SameButPayloadLayer(origin.record, last.rec)
    /\ last.rec.payload_tag # origin.record.payload_tag
    /\ last.res.err.message = MsgDekUnwrap

\* C20 (gate precedes key material), as claimed: decryptPayload of a record
\* that violates the gate throws a validation error naming a binary field,
\* whatever master key accompanies it.
C20_GatePrecedesKey ==
    (last.op = "decrypt" /\ ~GateAccepts(last.rec))
    => /\ ~last.res.ok
       /\ last.res.err.message \in GateMessages
       /\ last.res.err.label \in BinaryFields

\* the positions of the seals in a trace of events
SealsIn(ops) == {i \in 1..Len(ops) : ops[i].op = "seal"}

\* one encrypt call with its trace sealed the serialized payload under the
\* DEK it drew first, and that DEK under the master key, in this order
TwoSeals(input, masterKey, ops) ==
    /\ Cardinality(SealsIn(ops)) = 2
    /\ ops[1].op = "random"
    /\ Len(ops[1].data) = KeyBytes
    /\ \E i, j \in SealsIn(ops) :
          /\ i < j
          /\ ops[i].key = ops[1].data
          /\ ops[i].data = utf8Encode(JSONstringify(input.payload))
          /\ ops[i].key # masterKey
          /\ ops[j].key = masterKey
          /\ ops[j].data = ops[1].data

\* C12 (master key never touches bulk data): every successful encryptPayload
\* call makes exactly two seals, the serialized payload under the DEK drawn in
\* that call and that DEK under the master key; the DEK of one call is the key
\* of no seal of another call; a call that fails on the key length seals
\* nothing.
C12_MasterKeySealsDekOnly ==
    /\ \A c \in 1..Len(encs) : TwoSeals(encs[c].input, encs[c].key, encs[c].ops)
    /\ \A c, d \in 1..Len(encs) :
          c # d => \A i \in SealsIn(encs[d].ops) : encs[d].ops[i].key # encs[c].ops[1].data
    /\ (last.op = "encrypt" /\ ~last.res.ok) => SealsIn(last.res.ops) = {}

C12_Witness ==
    /\ Len(encs) = 2
    /\ encs[1].key = encs[2].key
    /\ encs[1].input = encs[2].input
    /\ encs[1].input.payload = PayloadSample
    /\ TwoSeals(encs[2].input, encs[2].key, encs[2].ops)
    /\ encs[1].ops[1].data # encs[2].ops[1].data

\* the events of all the encrypt calls, in order
RECURSIVE AllOps(_)
AllOps(calls) ==
    IF calls = <<>> THEN <<>> ELSE AllOps(SubSeq(calls, 1, Len(calls) - 1)) \o calls[Len(calls)].ops

\* C13 (nonce freshness): over the encrypt calls of a run, with a generator
\* that never repeats a draw, the nonce of every seal is the 12 bytes drawn
\* immediately before it, and no two seals under the same key, the wraps
\* under one master key included, have the same nonce.
C13_NonceFreshness ==
    LET ops == AllOps(encs)
    IN /\ \A i \in SealsIn(ops) :
             /\ i > 1
             /\ ops[i - 1].op = "random"
             /\ ops[i - 1].data = ops[i].nonce
             /\ Len(ops[i].nonce) = NonceBytes
       /\ \A i, j \in SealsIn(ops) :
             (i # j /\ ops[i].key = ops[j].key) => ops[i].nonce # ops[j].nonce

C13_Witness ==
    /\ Len(encs) = 2
    /\ encs[1].key = encs[2].key
    /\ Cardinality(SealsIn(AllOps(encs))) = 4
    /\ encs[1].record.dek_wrap_nonce # encs[2].record.dek_wrap_nonce
    /\ encs[1].record.payload_nonce # encs[1].record.dek_wrap_nonce

NonHexFields(r) == {f \in BinaryFields : ~EvenHex(r[f])}
WrongNonces(r) == {f \in NonceFields : Len(r[f]) # 24}
WrongTags(r) == {f \in TagFields : Len(r[f]) # 32}

\* C21 (validation check order), as claimed: validateRecord reports a field
\* that is not hex when the record has one; if all six are hex, a nonce of
\* the wrong length when it has one; and a tag of the wrong length otherwise.
C21_HexThenNoncesThenTags ==
    (last.op = "validate" /\ ~last.res.ok)
    => IF NonHexFields(last.rec) # {}
       THEN /\ last.res.err.message = MsgInvalidHex
            /\ last.res.err.label \in NonHexFields(last.rec)
       ELSE IF WrongNonces(last.rec) # {}
       THEN /\ last.res.err.message = MsgExpectedBytes
            /\ last.res.err.label \in WrongNonces(last.rec)
       ELSE /\ last.res.err.message = MsgExpectedBytes
            /\ last.res.err.label \in WrongTags(last.rec)

MetaFields == {"id", "partyId", "createdAt", "alg", "mk_version"}

\* record r is record o except, possibly, in the five fields of metadata
SameButMeta(o, r) == \A f \in DOMAIN o : f \notin MetaFields => r[f] = o[f]

\* C23 (unauthenticated metadata): decryptPayload, under the encrypting key,
\* of an encrypted record in which id, partyId, createdAt, alg or mk_version
\* was changed succeeds and returns the payload given to encrypt with the id
\* and partyId that the record now has.
C23_MetadataUnauthenticated ==
    (/\ last.op = "decrypt"
     /\ origin # NoOrigin
     /\ origin.input # NoInput
     /\ last.key = origin.masterKey
     /\ SameButMeta(origin.record, last.rec))
    => /\ last.res.ok
       /\ last.res.value.payload = origin.input.payload
       /\ last.res.value.id = last.rec.id
       /\ last.res.value.partyId = last.rec.partyId

C23_Witness ==
    /\ last.op = "decrypt"
    /\ origin # NoOrigin
    /\ last.key = origin.masterKey
    /\ SameButMeta(origin.record, last.rec)
    /\ last.rec.partyId = "party_789"
    /\ origin.input.partyId = "party_123"
    /\ origin.input.payload = PayloadSample
    /\ last.res.ok
    /\ last.res.value.partyId = "party_789"
    /\ last.res.value.payload = PayloadSample

\* the store holds exactly the records of the successful encrypt requests,
\* each under its own id and as it was sent to the requester, and a decrypt
\* of a stored id was answered with what was submitted
StoreHoldsEncrypted ==
    /\ DOMAIN store = {encs[i].record.id : i \in 1..Len(encs)}
    /\ Cardinality(DOMAIN store) = Len(encs)
    /\ \A i \in 1..Len(encs) : store[encs[i].record.id] = encs[i].record
    /\ \A id \in DOMAIN store : store[id].id = id
    /\ (reply.route = "encrypt" /\ reply.status = 201)
       => reply.body = encs[Len(encs)].record
    /\ (reply.route = "decrypt" /\ reply.id \in DOMAIN store)
       => /\ reply.status = 200
          /\ reply.body.id = reply.id
          /\ \E i \in 1..Len(encs) :
                /\ encs[i].record.id = reply.id
                /\ reply.body.partyId = encs[i].input.partyId
                /\ reply.body.payload = encs[i].input.payload

\* a request changes the store only by an encrypt answered 201 adding the
\* record sent; a rejected encrypt, a GET and a decrypt leave it as it is
StoreGrowsByEncrypt ==
    /\ store' # store
       => /\ reply'.route = "encrypt"
          /\ reply'.status = 201
          /\ reply'.body.id \notin DOMAIN store
          /\ DOMAIN store' = DOMAIN store \cup {reply'.body.id}
          /\ store'[reply'.body.id] = reply'.body
          /\ \A id \in DOMAIN store : store'[id] = store[id]
    /\ (reply' # reply /\ reply'.route \in {"get", "decrypt"}) => store' = store
    /\ (reply' # reply /\ reply'.route = "encrypt" /\ reply'.status # 201) => store' = store

\* C22 (store invariant of the API server): after any requests the store
\* holds exactly the records of the successful encrypt requests, each keyed by
\* its own id and equal to the record sent to the requester; the store changes
\* only by a successful encrypt adding one entry; a decrypt of a stored id is
\* answered 200 with the partyId and payload that were submitted.
C22_StoreInvariant == [] StoreHoldsEncrypted /\ [][StoreGrowsByEncrypt]_vars

C22_Witness ==
    /\ Len(encs) = 2
    /\ Cardinality(DOMAIN store) = 2
    /\ reply.route = "decrypt"
    /\ reply.id = encs[1].record.id
    /\ reply.status = 200
    /\ reply.body.partyId = "party_456"
    /\ reply.body.payload = PayloadNested
    /\ encs[2].input.payload = PayloadSample

====
